---- MODULE Spec2Model ----
(***************************************************************************)
(* Model of the isc_agent web honeypot (srv/web/isc_agent/__main__.py):    *)
(* the request handler HoneypotRequestHandler (signature scan, response    *)
(* selection, templating, emission, telemetry hand-off), the reload and    *)
(* shutdown signal handlers, and the start-up sequence of the main body.   *)
(*                                                                         *)
(* Text is a sequence of one-character strings; bytes are a sequence of    *)
(* byte tokens.  A Python dict that keeps insertion order (the header      *)
(* mapping of a response) is a sequence of <<key, value>> pairs.           *)
(***************************************************************************)
EXTENDS Integers, Sequences, FiniteSets, TLC

(***************************************************************************)
(* Bounds of the model.                                                    *)
(***************************************************************************)
MaxReloads  == 1      \* SIGHUP deliveries over a run
MaxClock    == 1      \* seconds the wall clock advances over a run
MaxScore    == 1      \* the scorer answers in -1 .. MaxScore
MaxSignals  == 2      \* SIGTERM/SIGINT deliveries over a run

\* The threads the ThreadingTCPServer starts over a run, one per accepted
\* connection, in the order of their start.
Workers == {"t1", "t2"}
ScoreRange == (0 - 1) .. MaxScore

(***************************************************************************)
(* Text helpers.                                                           *)
(***************************************************************************)
Letters == {"a","b","c","d","e","f","g","h","i","j","k","l","m","n","o","p",
            "q","r","s","t","u","v","w","x","y","z",
            "A","B","C","D","E","F","G","H","I","J","K","L","M","N","O","P",
            "Q","R","S","T","U","V","W","X","Y","Z"}
Digits == <<"0","1","2","3","4","5","6","7","8","9">>

\* \w of the regular expressions: letters, digits, underscore (and the
\* accented letter the model's texts use).
IsWordChar(c) == c \in Letters \cup {Digits[i] : i \in 1..10} \cup {"_", "é"}

\* str.encode('utf-8') on one character: ASCII is one byte, "é" is C3 A9.
EncodeChar(c) == IF c = "é" THEN <<"xC3", "xA9">> ELSE <<c>>

RECURSIVE Encode(_)
Encode(text) ==
  IF text = <<>> THEN <<>> ELSE EncodeChar(Head(text)) \o Encode(Tail(text))

\* str(n) for a non-negative integer.
RECURSIVE IntToStr(_)
IntToStr(n) ==
  IF n < 10 THEN <<Digits[n + 1]>>
  ELSE IntToStr(n \div 10) \o <<Digits[(n % 10) + 1]>>

MarkerOpen  == <<"*", "{", "*">>
MarkerClose == <<"*", "}", "*">>
Marker(name) == MarkerOpen \o name \o MarkerClose

\* SubSeq that is empty when it would run past the end of the text.
Slice(text, i, n) ==
  IF i + n - 1 > Len(text) THEN <<>> ELSE SubSeq(text, i, i + n - 1)

\* Length of the run of word characters that starts at position i (greedy \w+).
RECURSIVE WordRun(_, _)
WordRun(text, i) ==
  IF i > Len(text) \/ ~IsWordChar(text[i]) THEN 0 ELSE 1 + WordRun(text, i + 1)

\* Match of  \*{\*(\w+)\*}\*  anchored at i: the position after the match,
\* or 0 when there is no match at i.
MatchAt(text, i) ==
  LET n == WordRun(text, i + 3) IN
  IF /\ Slice(text, i, 3) = MarkerOpen
     /\ n >= 1
     /\ Slice(text, i + 3 + n, 3) = MarkerClose
  THEN i + 3 + n + 3
  ELSE 0

\* re.findall(r"\*{\*(\w+)\*}\*", text): the names of the non-overlapping
\* matches, scanning from the left.
RECURSIVE FindAllFrom(_, _)
FindAllFrom(text, i) ==
  IF i > Len(text) THEN <<>>
  ELSE LET e == MatchAt(text, i) IN
       IF e = 0 THEN FindAllFrom(text, i + 1)
       ELSE <<SubSeq(text, i + 3, e - 4)>> \o FindAllFrom(text, e)

FindAll(text) == FindAllFrom(text, 1)

\* re.sub(pattern, markup, text) for the literal pattern built at line 63:
\* every non-overlapping occurrence of pat, from the left, becomes markup.
\* (The customization values of the model hold no backslash, so the
\* replacement template is the markup itself.)
RECURSIVE ReSubFrom(_, _, _, _)
ReSubFrom(pat, markup, text, i) ==
  IF i > Len(text) THEN <<>>
  ELSE IF Slice(text, i, Len(pat)) = pat
       THEN markup \o ReSubFrom(pat, markup, text, i + Len(pat))
       ELSE <<text[i]>> \o ReSubFrom(pat, markup, text, i + 1)

ReSub(pat, markup, text) == ReSubFrom(pat, markup, text, 1)

\* dict.get(key, default) on a mapping held as a function.
DictGet(d, key, default) == IF key \in DOMAIN d THEN d[key] ELSE default

\* Lines 61-66 of apply_customizations: the loop over set(custom_tags).  The
\* iteration order of a set of strings is not fixed, so the result is the
\* set of texts the loop can produce.
RECURSIVE SubstituteTags(_, _, _)
SubstituteTags(text, tags, customizations) ==
  IF tags = {} THEN {text}
  ELSE UNION { SubstituteTags(ReSub(Marker(t), DictGet(customizations, t, <<>>), text),
                              tags \ {t}, customizations) : t \in tags }

Range(s) == {s[i] : i \in 1..Len(s)}

RenderOutcomes(text, customizations) ==
  SubstituteTags(text, Range(FindAll(text)), customizations)


(***************************************************************************)
(* Literals of the source.                                                 *)
(***************************************************************************)
PageNotFound == <<"P","A","G","E"," ","N","O","T"," ","F","O","U","N","D",".">>
NotFound == <<"N","o","t"," ","F","o","u","n","d">>
TextHtml == <<"t","e","x","t","/","h","t","m","l">>
DefaultResponseId == 1
InitialBestScore == 0 - 1

\* BaseHTTPRequestHandler.date_time_string(): the current time in the HTTP
\* date format, a text of fixed width; the model's clock counts seconds.
DateTimeString(now) ==
  <<"M","o","n",","," ","0","3"," ","N","o","v"," ","2","0","2","6"," ","1","6",":","4","9",":","0">> \o <<Digits[(now % 10) + 1]>> \o <<" ","G","M","T">>

DateTag   == <<"d","a","t","e">>
BannerTag == <<"s","v">>
UnknownTag == <<"u">>

(***************************************************************************)
(* The data the agent loads.  RulesFile(g) is what update_honeypot_rules   *)
(* finds at the g-th load (signatures in order, responses by id) and       *)
(* CustFile(g) is the customization file at that time.  A response is a    *)
(* dict whose keys status_code, headers and body are each optional.        *)
(***************************************************************************)
RulesFile(g) ==
  IF g % 2 = 1
  THEN [signatures |-> << [responses |-> <<2, 3>>], [responses |-> <<3, 4>>],
                          [responses |-> <<1>>] >>,
        responses  |->
            (1 :> [body |-> <<"G","o","n","e">>])
         @@ (2 :> [headers |-> << <<"Server", Marker(BannerTag)>>,
                                  <<"X-At", Marker(DateTag)>> >>,
                   body |-> <<"c","a","f","é"," ">> \o Marker(BannerTag) \o <<" ">> \o Marker(DateTag)])
         @@ (3 :> [status_code |-> 200,
                   headers |-> << <<"Content-Type", <<"t","e","x","t","/","p","l","a","i","n">>>> >>,
                   body |-> Marker(UnknownTag)])]
  ELSE [signatures |-> <<>>,
        responses  |->
            (1 :> [headers |-> <<>>, body |-> PageNotFound])
         @@ (2 :> [headers |-> << <<"Server", <<"n","g","i","n","x">>>> >>,
                   body |-> <<"h","e","l","l","o"," ">> \o Marker(BannerTag) \o <<"!"," ","H","o","w"," ","a","r","e"," ","y","o","u","?">>])]

CustFile(g) ==
  IF g = 0 THEN (BannerTag :> <<"A","p","/","2">>) ELSE (BannerTag :> <<"n","g","i","n","x">>)

Generations == 0 .. MaxReloads
ResponseIds == 1 .. 4

\* The header dicts of the loaded responses: objects shared by every thread
\* that serves the response (dict(resp) at line 75 copies one level only).
HeaderObjects ==
  { <<g, id>> \in Generations \X ResponseIds :
       /\ id \in DOMAIN RulesFile(g).responses
       /\ "headers" \in DOMAIN RulesFile(g).responses[id] }


(***************************************************************************)
(* State.                                                                  *)
(***************************************************************************)
VARIABLES
  isc_agent,                \* the Agent: .signatures and .responses name the load
                            \* (generation) each attribute refers to, .queue is
                            \* the telemetry queue, .started and .shutdowns
                            \* record start() and the calls of shutdown()
  header_dicts,             \* the header dict of every loaded response
  response_customizations,  \* module global: .tags the mapping, .file the load
                            \* it was read from
  clock,                    \* wall clock, in seconds
  workers,                  \* per thread: the locals of handle_request/responder
  accepted,                 \* requests accepted so far
  reloads,                  \* SIGHUP deliveries so far
  main,                     \* main thread: .pc its position in the main body,
                            \* .status running/exited, .exit_code, .cause
  handlers,                 \* signals whose handler has been installed
  handler_stack,            \* frames of shutdown_handler running on the main
                            \* thread, innermost last
  stun_mgr,                 \* the StunnelManager: .defined, .started, .shutdowns
  port,                     \* who holds the listening port
  signals                   \* terminate/interrupt signals delivered so far

serveVars == <<isc_agent, header_dicts, response_customizations, clock, workers,
               accepted, reloads>>
lifeVars == <<main, handlers, handler_stack, stun_mgr, port, signals>>
vars == <<isc_agent, header_dicts, response_customizations, clock, workers,
          accepted, reloads, main, handlers, handler_stack, stun_mgr, port,
          signals>>

\* The module-level and Agent state a handler step reads and writes.
Globals ==
  [isc_agent |-> isc_agent, header_dicts |-> header_dicts,
   response_customizations |-> response_customizations, clock |-> clock]

NoRef == 0 - 1

\* A thread that has not been started yet.
IdleLocals ==
  [pc |-> "idle", req |-> [clen |-> "absent"], accepted_at |-> NoRef,
   reloads_at |-> NoRef,
   scores |-> <<>>, sigs |-> NoRef, best_score |-> InitialBestScore,
   best_signature |-> 0, response_id |-> 0, resp |-> NoRef,
   customized_server_string |-> <<>>, body |-> <<>>, body_bytes |-> <<>>,
   cust_file |-> NoRef,
   status_code |-> 0, headers |-> <<>>, iter |-> 0, key |-> "", value |-> <<>>,
   out_status |-> 0, out_headers |-> <<>>, flushed |-> FALSE,
   out_body |-> <<>>, body_written |-> FALSE, exc |-> "", enqueued |-> 0,
   date |-> <<>>]

(***************************************************************************)
(* Ordered dicts (the header mapping).                                     *)
(***************************************************************************)
HasKey(d, k) == \E i \in 1..Len(d) : d[i][1] = k

SeqGet(d, k, default) ==
  IF HasKey(d, k) THEN d[CHOOSE i \in 1..Len(d) : d[i][1] = k][2] ELSE default

\* d[k] = v: an existing key keeps its place, a new key goes last.
DictPut(d, k, v) ==
  IF HasKey(d, k)
  THEN [d EXCEPT ![CHOOSE i \in 1..Len(d) : d[i][1] = k] = <<k, v>>]
  ELSE Append(d, <<k, v>>)

(***************************************************************************)
(* handle_request, lines 143-157: the scan and the choice of response id.  *)
(***************************************************************************)
\* ScanFrom with the comparison of line 148 as >= : the last maximum wins.
RECURSIVE ScanFromLastWins(_, _, _, _)
ScanFromLastWins(scores, i, best_score, best_signature) ==
  IF i > Len(scores)
  THEN [best_score |-> best_score, best_signature |-> best_signature]
  ELSE IF scores[i] >= best_score
       THEN ScanFromLastWins(scores, i + 1, scores[i], i)
       ELSE ScanFromLastWins(scores, i + 1, best_score, best_signature)

\* Lines 146-150, from signature i on.  best_signature is the position of
\* the signature in the list, 0 for None.
RECURSIVE ScanFrom(_, _, _, _)
ScanFrom(scores, i, best_score, best_signature) ==
  IF i > Len(scores)
  THEN [best_score |-> best_score, best_signature |-> best_signature]
  ELSE IF scores[i] > best_score
       THEN ScanFrom(scores, i + 1, scores[i], i)
       ELSE ScanFrom(scores, i + 1, best_score, best_signature)

\* ResponseChoices with the threshold of line 154 as >= 0.
ResponseChoicesNonNegative(signatures, best) ==
  IF best.best_signature # 0 /\ best.best_score >= 0
  THEN Range(DictGet(signatures[best.best_signature], "responses", <<1>>))
  ELSE {DefaultResponseId}

\* Lines 154-157: the ids random.choice can return, or the default id.
ResponseChoices(signatures, best) ==
  IF best.best_signature # 0 /\ best.best_score > 0
  THEN Range(DictGet(signatures[best.best_signature], "responses", <<1>>))
  ELSE {DefaultResponseId}

\* An exception leaves responder and the try block of handle_request:
\* BrokenPipeError is caught and logged at lines 179-180, anything else
\* leaves handle_request.
Raise(loc, e) ==
  [loc EXCEPT !.exc = e,
              !.pc = IF e = "BrokenPipeError" THEN "done" ELSE "failed"]

ScanStep(loc, G) ==
  LET signatures == RulesFile(G.isc_agent.signatures).signatures IN
  UNION {
    LET best == ScanFrom(scores, 1, InitialBestScore, 0)
        base == [loc EXCEPT !.sigs = G.isc_agent.signatures, !.scores = scores,
                            !.best_score = best.best_score,
                            !.best_signature = best.best_signature]
    IN IF ResponseChoices(signatures, best) = {}
       THEN {<<[base EXCEPT !.exc = "IndexError", !.pc = "failed"], G>>}
       ELSE {<<[base EXCEPT !.response_id = id, !.pc = "resolve"], G>>
               : id \in ResponseChoices(signatures, best)}
    : scores \in [1..Len(signatures) -> ScoreRange] }

(***************************************************************************)
(* responder, lines 75-114.                                                *)
(***************************************************************************)
\* The response dict a thread holds after line 75; loc.resp names the load
\* of the table isc_agent.responses referred to at line 75.
Resp(loc) == RulesFile(loc.resp).responses[loc.response_id]

SharesHeaders(loc) == "headers" \in DOMAIN Resp(loc)

\* resp.get("headers", {}): the dict of the loaded response, shared with the
\* other threads, or a fresh dict of this call.
Headers(loc, G) ==
  IF SharesHeaders(loc) THEN G.header_dicts[<<loc.resp, loc.response_id>>]
  ELSE loc.headers

\* Lines 75-82.  dict(None) raises TypeError when the id is not in the table.
ResolveStep(loc, G) ==
  LET table == RulesFile(G.isc_agent.responses).responses
      l1 == [loc EXCEPT !.resp = G.isc_agent.responses]
  IN IF loc.response_id \notin DOMAIN table
     THEN {<<Raise(l1, "TypeError"), G>>}
     ELSE {<<[l1 EXCEPT !.customized_server_string =
                           SeqGet(Headers(l1, G), "Server", <<>>),
                        !.pc = "body_date"], G>>}

\* apply_customizations, line 59.
SetDate(G) ==
  [G EXCEPT !.response_customizations.tags =
       (DateTag :> DateTimeString(G.clock)) @@ @]

\* The local date is the text this call stored, kept until the call has
\* made its substitutions.
BodyDateStep(loc, G) ==
  {<<[loc EXCEPT !.date = DateTimeString(G.clock), !.pc = "body_sub"], SetDate(G)>>}

\* StatusCode with the comparison of line 89 as >= .
StatusCodeAtLeast(resp, body_bytes) ==
  LET default_status_code ==
        IF Len(body_bytes) >= Len(PageNotFound) THEN 200 ELSE 404
  IN DictGet(resp, "status_code", default_status_code)

\* Lines 89-93.
StatusCode(resp, body_bytes) ==
  LET default_status_code ==
        IF Len(body_bytes) > Len(PageNotFound) THEN 200 ELSE 404
  IN DictGet(resp, "status_code", default_status_code)

\* send_response, lines 40-46: the status line, then the Server header when
\* customized_server_string is set (neither None nor empty).
SendResponse(loc, code) ==
  [loc EXCEPT !.out_status = code,
              !.out_headers =
                 IF loc.customized_server_string # <<>>
                 THEN Append(@, <<"Server", loc.customized_server_string>>)
                 ELSE @]

\* apply_customizations lines 61-66 on the body, then lines 86-96.
BodySubStep(loc, G) ==
  { LET body_bytes == Encode(body)
        l1 == [loc EXCEPT !.body = body, !.body_bytes = body_bytes,
                          !.cust_file = G.response_customizations.file,
                          !.status_code = StatusCode(Resp(loc), body_bytes),
                          !.date = <<>>,
                          !.pc = "put_headers"]
    IN <<SendResponse(l1, l1.status_code), G>>
    : body \in RenderOutcomes(DictGet(Resp(loc), "body", NotFound),
                              G.response_customizations.tags) }

\* Lines 99-101: the two required headers are stored in the header dict.
RequiredHeaders(headers, body_bytes) ==
  DictPut(DictPut(headers, "Content-Type", SeqGet(headers, "Content-Type", TextHtml)),
          "Content-Length", IntToStr(Len(body_bytes)))

\* Advance without the test of lines 105-106: the Server entry is sent with
\* the other headers.
AdvanceNoSkip(loc, h, i) ==
  IF i > Len(h) THEN [loc EXCEPT !.iter = i, !.pc = "flush"]
  ELSE [loc EXCEPT !.iter = i, !.pc = "hdr_iter"]

\* The loop of line 104 moves on from position i of the header dict: entries
\* with the key Server are passed over (lines 105-106); past the last entry
\* the loop ends and line 111 is next.
RECURSIVE Advance(_, _, _)
Advance(loc, h, i) ==
  IF i > Len(h) THEN [loc EXCEPT !.iter = i, !.pc = "flush"]
  ELSE IF h[i][1] = "Server" THEN Advance(loc, h, i + 1)
       ELSE [loc EXCEPT !.iter = i, !.pc = "hdr_iter"]

\* PutHeadersStep with the Content-Length taken from the body as loaded,
\* before the customizations are applied.
PutHeadersStepUntemplated(loc, G) ==
  LET h == RequiredHeaders(Headers(loc, G),
                           Encode(DictGet(Resp(loc), "body", NotFound))) IN
  IF SharesHeaders(loc)
  THEN {<<Advance(loc, h, 1),
          [G EXCEPT !.header_dicts[<<loc.resp, loc.response_id>>] = h]>>}
  ELSE {<<Advance([loc EXCEPT !.headers = h], h, 1), G>>}

PutHeadersStep(loc, G) ==
  LET h == RequiredHeaders(Headers(loc, G), loc.body_bytes) IN
  IF SharesHeaders(loc)
  THEN {<<Advance(loc, h, 1),
          [G EXCEPT !.header_dicts[<<loc.resp, loc.response_id>>] = h]>>}
  ELSE {<<Advance([loc EXCEPT !.headers = h], h, 1), G>>}

\* Lines 104-107 and 59: the loop takes the (key, value) at its position in
\* the dict and apply_customizations starts on the value.
HdrIterStep(loc, G) ==
  LET h == Headers(loc, G) IN
  {<<[loc EXCEPT !.key = h[loc.iter][1], !.value = h[loc.iter][2],
                 !.date = DateTimeString(G.clock),
                 !.pc = "hdr_sub"], SetDate(G)>>}

\* Lines 61-66 on the header value, then send_header at line 108.
HdrSubStep(loc, G) ==
  { <<Advance([loc EXCEPT !.out_headers = Append(@, <<loc.key, formatted_value>>),
                          !.date = <<>>],
              Headers(loc, G), loc.iter + 1), G>>
    : formatted_value \in RenderOutcomes(loc.value, G.response_customizations.tags) }

\* A write to a socket whose peer has gone fails with EPIPE
\* (BrokenPipeError) or, when the peer has reset the connection, with
\* ECONNRESET (ConnectionResetError).
PeerGone == {"BrokenPipeError", "ConnectionResetError"}

\* Line 111: end_headers writes the buffered status line and headers to the
\* socket; the peer may have gone.
FlushStep(loc, G) ==
  { <<[loc EXCEPT !.flushed = TRUE, !.pc = "write_body"], G>> }
  \cup { <<Raise(loc, e), G>> : e \in PeerGone }

\* Line 114.
WriteBodyStep(loc, G) ==
  { <<[loc EXCEPT !.out_body = loc.body_bytes, !.body_written = TRUE,
                  !.pc = "log"], G>> }
  \cup { <<Raise(loc, e), G>> : e \in PeerGone }

\* Agent.add_to_queue: the record joins the telemetry queue.
add_to_queue(agent, log_data) == [agent EXCEPT !.queue = Append(@, log_data)]

\* Lines 163-178.  int() raises ValueError on a Content-Length that is not
\* a number.
LogStep(loc, G) ==
  IF loc.req.clen = "bad" THEN {<<Raise(loc, "ValueError"), G>>}
  ELSE LET log_data == [request |-> loc.accepted_at,
                        response_id |-> loc.response_id,
                        signature_id |-> loc.best_signature]
       IN {<<[loc EXCEPT !.enqueued = @ + 1, !.pc = "done"],
             [G EXCEPT !.isc_agent = add_to_queue(@, log_data)]>>}

\* One step of the thread, by its position in the code.
HandlerSteps(loc, G) ==
  CASE loc.pc = "scan"        -> ScanStep(loc, G)
    [] loc.pc = "resolve"     -> ResolveStep(loc, G)
    [] loc.pc = "body_date"   -> BodyDateStep(loc, G)
    [] loc.pc = "body_sub"    -> BodySubStep(loc, G)
    [] loc.pc = "put_headers" -> PutHeadersStep(loc, G)
    [] loc.pc = "hdr_iter"    -> HdrIterStep(loc, G)
    [] loc.pc = "hdr_sub"     -> HdrSubStep(loc, G)
    [] loc.pc = "flush"       -> FlushStep(loc, G)
    [] loc.pc = "write_body"  -> WriteBodyStep(loc, G)
    [] loc.pc = "log"         -> LogStep(loc, G)
    [] OTHER                  -> {}

Finished(loc) == loc.pc \in {"done", "failed"}

\* handle_request run from loc to its end with no other thread in between.
RECURSIVE RunToEnd(_, _)
RunToEnd(loc, G) ==
  IF Finished(loc) THEN {<<loc, G>>}
  ELSE UNION { RunToEnd(s[1], s[2]) : s \in HandlerSteps(loc, G) }

\* The thread the server starts for an accepted connection (do_GET, do_POST,
\* ... all enter handle_request).
NewRequest(clen) ==
  [IdleLocals EXCEPT !.pc = "scan", !.req = [clen |-> clen],
                     !.accepted_at = accepted + 1, !.reloads_at = reloads]

Install(G) ==
  /\ isc_agent' = G.isc_agent
  /\ header_dicts' = G.header_dicts
  /\ response_customizations' = G.response_customizations

(***************************************************************************)
(* The serving process: the agent has started and loaded the rules (load   *)
(* 0), the customization file has been read (lines 285-293), the handlers  *)
(* are installed and the main thread is in serve_forever (line 345).       *)
(***************************************************************************)
AllSignals == {"SIGTERM", "SIGHUP", "SIGINT"}

ServingAgent ==
  [signatures |-> 0, responses |-> 0, queue |-> <<>>, started |-> TRUE,
   shutdowns |-> 0]

Init ==
  /\ isc_agent = ServingAgent
  /\ header_dicts = [o \in HeaderObjects |-> RulesFile(o[1]).responses[o[2]].headers]
  /\ response_customizations = [tags |-> CustFile(0), file |-> 0]
  /\ clock = 0
  /\ workers = [w \in Workers |-> IdleLocals]
  /\ accepted = 0
  /\ reloads = 0
  /\ main = [pc |-> "serve_forever", status |-> "running", exit_code |-> 0,
             cause |-> ""]
  /\ handlers = AllSignals
  /\ handler_stack = <<>>
  /\ stun_mgr = [defined |-> TRUE, started |-> TRUE, shutdowns |-> 0]
  /\ port = "httpd"
  /\ signals = 0

Serving == main.status = "running" /\ main.pc = "serve_forever"

\* Agent.update_honeypot_rules: the signatures and the responses of the next
\* load replace the active ones together.
update_honeypot_rules(agent, g) == [agent EXCEPT !.signatures = g, !.responses = g]

\* reload_handler, lines 220-223 (SIGHUP).
Reload ==
  /\ main.status = "running"
  /\ "SIGHUP" \in handlers
  /\ reloads < MaxReloads
  /\ reloads' = reloads + 1
  /\ isc_agent' = update_honeypot_rules(isc_agent, reloads + 1)
  /\ UNCHANGED <<header_dicts, response_customizations, clock, workers, accepted>>
  /\ UNCHANGED lifeVars

Tick ==
  /\ clock < MaxClock
  /\ clock' = clock + 1
  /\ UNCHANGED <<isc_agent, header_dicts, response_customizations, workers,
                 accepted, reloads>>
  /\ UNCHANGED lifeVars

\* The thread of a finished request ends.
ThreadExit(w) ==
  /\ Finished(workers[w])
  /\ workers' = [workers EXCEPT ![w] = [IdleLocals EXCEPT !.pc = "ended"]]
  /\ UNCHANGED <<isc_agent, header_dicts, response_customizations, clock,
                 accepted, reloads>>
  /\ UNCHANGED lifeVars

\* The next connection goes to the next thread.
NextThread(w) ==
  /\ workers[w].pc = "idle"
  /\ w = "t2" => workers["t1"].pc # "idle"

(***************************************************************************)
(* Requests served one after the other: each is handled to its end, and    *)
(* its thread has ended, before the next is accepted.                      *)
(***************************************************************************)
HandleRequest ==
  /\ Serving
  /\ \A w \in Workers : workers[w].pc \in {"idle", "ended"}
  /\ \E w \in Workers, clen \in {"absent", "bad"} :
       /\ NextThread(w)
       /\ \E r \in RunToEnd(NewRequest(clen), Globals) :
            /\ workers' = [workers EXCEPT ![w] = r[1]]
            /\ Install(r[2])
  /\ accepted' = accepted + 1
  /\ UNCHANGED <<clock, reloads>>
  /\ UNCHANGED lifeVars

Next == HandleRequest \/ Reload \/ Tick \/ \E w \in Workers : ThreadExit(w)

Spec == Init /\ [][Next]_vars

(***************************************************************************)
(* Requests served by concurrent threads: a thread per accepted connection *)
(* (ThreadingTCPServer, line 318), the threads interleaved between their   *)
(* accesses to the shared objects.                                        *)
(***************************************************************************)
Accept(w) ==
  /\ Serving
  /\ NextThread(w)
  /\ workers' = [workers EXCEPT ![w] = NewRequest("absent")]
  /\ accepted' = accepted + 1
  /\ UNCHANGED <<isc_agent, header_dicts, response_customizations, clock, reloads>>
  /\ UNCHANGED lifeVars

\* Thread w takes the step of handle_request/responder it stands at.  The
\* scorer's answers and best_score, which no line after 154 reads, are not
\* kept.
ThreadStep(w, pc) ==
  /\ workers[w].pc = pc
  /\ \E s \in HandlerSteps(workers[w], Globals) :
       /\ workers' = [workers EXCEPT ![w] =
                        [s[1] EXCEPT !.scores = <<>>, !.best_score = InitialBestScore]]
       /\ Install(s[2])
  /\ UNCHANGED <<clock, accepted, reloads>>
  /\ UNCHANGED lifeVars

Scan(w)       == ThreadStep(w, "scan")
Resolve(w)    == ThreadStep(w, "resolve")
BodyDate(w)   == ThreadStep(w, "body_date")
BodySub(w)    == ThreadStep(w, "body_sub")
PutHeaders(w) == ThreadStep(w, "put_headers")
HdrIter(w)    == ThreadStep(w, "hdr_iter")
HdrSub(w)     == ThreadStep(w, "hdr_sub")

\* Lines 111-114 and 163-180 touch no object another thread reads before the
\* record joins the queue: the thread runs them in one step, and ends.
Emit(w) ==
  /\ workers[w].pc = "flush"
  /\ \E r \in RunToEnd(workers[w], Globals) :
       /\ workers' = [workers EXCEPT ![w] = [IdleLocals EXCEPT !.pc = "ended"]]
       /\ Install(r[2])
  /\ UNCHANGED <<clock, accepted, reloads>>
  /\ UNCHANGED lifeVars

\* A thread whose request left handle_request with an exception ends.
Abort(w) ==
  /\ workers[w].pc = "failed"
  /\ ThreadExit(w)

ConcNext ==
  \/ Reload
  \/ Tick
  \/ \E w \in Workers : Accept(w)
  \/ \E w \in Workers : Scan(w)
  \/ \E w \in Workers : Resolve(w)
  \/ \E w \in Workers : BodyDate(w)
  \/ \E w \in Workers : BodySub(w)
  \/ \E w \in Workers : PutHeaders(w)
  \/ \E w \in Workers : HdrIter(w)
  \/ \E w \in Workers : HdrSub(w)
  \/ \E w \in Workers : Emit(w)
  \/ \E w \in Workers : Abort(w)

ConcSpec == Init /\ [][ConcNext]_vars


(***************************************************************************)
(* The life of the process: the main body (lines 258-345) from the reading *)
(* of the configuration to serve_forever, the signals, shutdown_handler.   *)
(* A Python signal handler runs on the main thread between two of its      *)
(* instructions, also while an earlier handler call is still running.      *)
(***************************************************************************)
EmptyDict == [t \in {} |-> <<>>]

LifeInit ==
  /\ isc_agent = [signatures |-> NoRef, responses |-> NoRef, queue |-> <<>>,
                  started |-> FALSE, shutdowns |-> 0]
  /\ header_dicts = [o \in HeaderObjects |-> RulesFile(o[1]).responses[o[2]].headers]
  /\ response_customizations = [tags |-> EmptyDict, file |-> NoRef]
  /\ clock = 0
  /\ workers = [w \in Workers |-> IdleLocals]
  /\ accepted = 0
  /\ reloads = 0
  /\ main = [pc |-> "read_config", status |-> "running", exit_code |-> 0,
             cause |-> ""]
  /\ handlers = {}
  /\ handler_stack = <<>>
  /\ stun_mgr = [defined |-> FALSE, started |-> FALSE, shutdowns |-> 0]
  /\ port \in {"free", "other"}
  /\ signals = 0

\* The main thread runs its own code only while no handler call is active.
MainAt(pc) == main.status = "running" /\ handler_stack = <<>> /\ main.pc = pc

Goto(pc) == main' = [main EXCEPT !.pc = pc]

\* The process ends: sys.exit, or an exception nobody catches.
Exited(code, cause) ==
  [main EXCEPT !.status = "exited", !.exit_code = code, !.cause = cause]

\* Lines 259-262.
ReadConfig ==
  /\ MainAt("read_config")
  /\ \E readable \in BOOLEAN :
       main' = IF readable THEN [main EXCEPT !.pc = "agent_start"]
               ELSE Exited(1, "config")
  /\ UNCHANGED <<handlers, handler_stack, stun_mgr, port, signals>>
  /\ UNCHANGED serveVars

\* Agent.start: the agent runs and holds the rules of load 0.
start(agent) == [agent EXCEPT !.started = TRUE, !.signatures = 0, !.responses = 0]

\* AgentStart with the break of line 282 taken after a failed start() too.
AgentStartOnce ==
  /\ MainAt("agent_start")
  /\ \E ok \in BOOLEAN :
       IF ok THEN isc_agent' = start(isc_agent) ELSE UNCHANGED isc_agent
  /\ Goto("load_customizations")
  /\ UNCHANGED <<header_dicts, response_customizations, clock, workers,
                 accepted, reloads>>
  /\ UNCHANGED <<handlers, handler_stack, stun_mgr, port, signals>>

\* Lines 275-282: one round of the loop.
AgentStart ==
  /\ MainAt("agent_start")
  /\ \E ok \in BOOLEAN :
       IF ok THEN /\ isc_agent' = start(isc_agent)
                  /\ Goto("load_customizations")
             ELSE /\ UNCHANGED isc_agent
                  /\ Goto("agent_sleep")
  /\ UNCHANGED <<header_dicts, response_customizations, clock, workers,
                 accepted, reloads>>
  /\ UNCHANGED <<handlers, handler_stack, stun_mgr, port, signals>>

\* Line 280.
AgentSleep ==
  /\ MainAt("agent_sleep")
  /\ Goto("agent_start")
  /\ UNCHANGED <<handlers, handler_stack, stun_mgr, port, signals>>
  /\ UNCHANGED serveVars

\* Lines 285-293.
LoadCustomizations ==
  /\ MainAt("load_customizations")
  /\ \E loaded \in BOOLEAN :
       response_customizations' =
         IF loaded THEN [tags |-> CustFile(0), file |-> 0]
         ELSE [tags |-> EmptyDict, file |-> 0]
  /\ Goto("bind_check")
  /\ UNCHANGED <<isc_agent, header_dicts, clock, workers, accepted, reloads>>
  /\ UNCHANGED <<handlers, handler_stack, stun_mgr, port, signals>>

\* Lines 306-315: one round of the loop; the probe socket is bound and
\* closed at once.
BindCheck ==
  /\ MainAt("bind_check")
  /\ Goto(IF port = "free" THEN "install_sigterm" ELSE "bind_sleep")
  /\ UNCHANGED <<handlers, handler_stack, stun_mgr, port, signals>>
  /\ UNCHANGED serveVars

\* Line 313.
BindSleep ==
  /\ MainAt("bind_sleep")
  /\ Goto("bind_check")
  /\ UNCHANGED <<handlers, handler_stack, stun_mgr, port, signals>>
  /\ UNCHANGED serveVars

\* Lines 326, 330 and 331.
InstallHandler(pc, sig, next) ==
  /\ MainAt(pc)
  /\ handlers' = handlers \cup {sig}
  /\ Goto(next)
  /\ UNCHANGED <<handler_stack, stun_mgr, port, signals>>
  /\ UNCHANGED serveVars

InstallSigterm == InstallHandler("install_sigterm", "SIGTERM", "install_sighup")
InstallSighup  == InstallHandler("install_sighup", "SIGHUP", "install_sigint")
InstallSigint  == InstallHandler("install_sigint", "SIGINT", "create_httpd")

\* Line 334: the server object binds the port in its constructor; the
\* OSError of a port in use is caught nowhere.
CreateHttpd ==
  /\ MainAt("create_httpd")
  /\ IF port = "free"
     THEN /\ port' = "httpd"
          /\ Goto("create_stun")
     ELSE /\ UNCHANGED port
          /\ main' = Exited(1, "OSError")
  /\ UNCHANGED <<handlers, handler_stack, stun_mgr, signals>>
  /\ UNCHANGED serveVars

\* Line 339.
CreateStun ==
  /\ MainAt("create_stun")
  /\ stun_mgr' = [stun_mgr EXCEPT !.defined = TRUE]
  /\ Goto("start_stun")
  /\ UNCHANGED <<handlers, handler_stack, port, signals>>
  /\ UNCHANGED serveVars

\* Lines 340-342: start and the join of the start-up thread; then line 345.
StartStun ==
  /\ MainAt("start_stun")
  /\ stun_mgr' = [stun_mgr EXCEPT !.started = TRUE]
  /\ Goto("serve_forever")
  /\ UNCHANGED <<handlers, handler_stack, port, signals>>
  /\ UNCHANGED serveVars

\* Another process takes the port, or gives it back.
OtherProcessBinds ==
  /\ port = "free"
  /\ port' = "other"
  /\ UNCHANGED <<main, handlers, handler_stack, stun_mgr, signals>>
  /\ UNCHANGED serveVars

OtherProcessReleases ==
  /\ port = "other"
  /\ port' = "free"
  /\ UNCHANGED <<main, handlers, handler_stack, stun_mgr, signals>>
  /\ UNCHANGED serveVars

\* SIGTERM or SIGINT reaches the process.  With shutdown_handler installed
\* a call of it starts on the main thread; otherwise the default action
\* ends the process.
Terminate(sig) ==
  /\ main.status = "running"
  /\ signals < MaxSignals
  /\ signals' = signals + 1
  /\ IF sig \in handlers
     THEN /\ handler_stack' = Append(handler_stack, "agent_shutdown")
          /\ UNCHANGED main
     ELSE /\ main' = Exited(1, sig)
          /\ UNCHANGED handler_stack
  /\ UNCHANGED <<handlers, stun_mgr, port>>
  /\ UNCHANGED serveVars

Top == handler_stack[Len(handler_stack)]

HandlerAt(pc) ==
  main.status = "running" /\ handler_stack # <<>> /\ Top = pc

HandlerGoto(pc) ==
  handler_stack' = [handler_stack EXCEPT ![Len(handler_stack)] = pc]

\* Agent.shutdown.
shutdown(agent) == [agent EXCEPT !.shutdowns = @ + 1]

\* shutdown_handler, lines 210-212.
HandlerAgentShutdown ==
  /\ HandlerAt("agent_shutdown")
  /\ isc_agent' = shutdown(isc_agent)
  /\ HandlerGoto("stun_shutdown")
  /\ UNCHANGED <<header_dicts, response_customizations, clock, workers,
                 accepted, reloads>>
  /\ UNCHANGED <<main, handlers, stun_mgr, port, signals>>

\* shutdown_handler, lines 213-214.  The global stun_mgr exists from line
\* 339 on; before, the name lookup raises NameError, which nothing catches.
HandlerStunShutdown ==
  /\ HandlerAt("stun_shutdown")
  /\ IF stun_mgr.defined
     THEN /\ stun_mgr' = [stun_mgr EXCEPT !.shutdowns = @ + 1]
          /\ HandlerGoto("exit")
          /\ UNCHANGED main
     ELSE /\ main' = Exited(1, "NameError")
          /\ handler_stack' = <<>>
          /\ UNCHANGED stun_mgr
  /\ UNCHANGED <<handlers, port, signals>>
  /\ UNCHANGED serveVars

\* shutdown_handler, lines 215-217: SystemExit unwinds every frame of the
\* main thread.
HandlerExit ==
  /\ HandlerAt("exit")
  /\ main' = Exited(0, "SystemExit")
  /\ handler_stack' = <<>>
  /\ UNCHANGED <<handlers, stun_mgr, port, signals>>
  /\ UNCHANGED serveVars

LifeNext ==
  \/ ReadConfig
  \/ AgentStart
  \/ AgentSleep
  \/ LoadCustomizations
  \/ BindCheck
  \/ BindSleep
  \/ InstallSigterm
  \/ InstallSighup
  \/ InstallSigint
  \/ CreateHttpd
  \/ CreateStun
  \/ StartStun
  \/ OtherProcessBinds
  \/ OtherProcessReleases
  \/ \E sig \in {"SIGTERM", "SIGINT"} : Terminate(sig)
  \/ HandlerAgentShutdown
  \/ HandlerStunShutdown
  \/ HandlerExit
  \/ Reload

LifeSpec == LifeInit /\ [][LifeNext]_vars

(***************************************************************************)
(* apply_customizations on its own: one handler calls it on a text, with   *)
(* the customization mapping as the file gave it.  The texts are built     *)
(* from plain characters, whole markers and marker halves; a mapping value *)
(* may itself hold a marker.                                               *)
(***************************************************************************)
MaxPieces == 3

TagA == <<"a">>
TagB == <<"b">>

RenderPieces ==
  { <<"x">>, Marker(TagA), Marker(TagB), MarkerOpen \o <<"a">>, <<"c">> \o MarkerClose }

RECURSIVE TextsOf(_)
TextsOf(n) ==
  IF n = 0 THEN {<<>>}
  ELSE {p \o t : p \in RenderPieces, t \in TextsOf(n - 1)}

RenderTexts == UNION {TextsOf(n) : n \in 1..MaxPieces}

RenderMappings ==
  { [t \in keys |-> IF t = TagA THEN va ELSE <<"B">>] :
      keys \in SUBSET {TagA, TagB}, va \in {<<"A">>, Marker(TagB)} }

RenderInit ==
  /\ isc_agent = ServingAgent
  /\ header_dicts = [o \in HeaderObjects |-> RulesFile(o[1]).responses[o[2]].headers]
  /\ \E m \in RenderMappings : response_customizations = [tags |-> m, file |-> 0]
  /\ clock = 0
  /\ \E text \in RenderTexts :
       workers = [w \in Workers |->
                    IF w = "t1" THEN [IdleLocals EXCEPT !.pc = "render", !.value = text]
                    ELSE IdleLocals]
  /\ accepted = 0
  /\ reloads = 0
  /\ main = [pc |-> "serve_forever", status |-> "running", exit_code |-> 0,
             cause |-> ""]
  /\ handlers = AllSignals
  /\ handler_stack = <<>>
  /\ stun_mgr = [defined |-> TRUE, started |-> TRUE, shutdowns |-> 0]
  /\ port = "httpd"
  /\ signals = 0

\* Line 59.
RenderDate(w) ==
  /\ workers[w].pc = "render"
  /\ workers' = [workers EXCEPT ![w].pc = "render_sub"]
  /\ Install(SetDate(Globals))
  /\ UNCHANGED <<clock, accepted, reloads>>
  /\ UNCHANGED lifeVars

\* Lines 61-66: the text returned is kept in body.
RenderSub(w) ==
  /\ workers[w].pc = "render_sub"
  /\ \E text_element \in RenderOutcomes(workers[w].value, response_customizations.tags) :
       workers' = [workers EXCEPT ![w].body = text_element, ![w].pc = "rendered"]
  /\ UNCHANGED <<isc_agent, header_dicts, response_customizations, clock,
                 accepted, reloads>>
  /\ UNCHANGED lifeVars

RenderNext == \E w \in Workers : RenderDate(w) \/ RenderSub(w)

RenderSpec == RenderInit /\ [][RenderNext]_vars

(***************************************************************************)
(* Shutdown while a request is in flight.  The threads of the server run   *)
(* on while shutdown_handler runs on the main thread (nothing stops or     *)
(* joins them, and httpd is not shut down); they end with the process.     *)
(* serve_forever accepts only while the main thread is not in a handler.   *)
(***************************************************************************)
StopAccept(w) ==
  /\ handler_stack = <<>>
  /\ Accept(w)

StopThread(w) ==
  /\ main.status = "running"
  /\ \/ Scan(w) \/ Resolve(w) \/ BodyDate(w) \/ BodySub(w) \/ PutHeaders(w)
     \/ HdrIter(w) \/ HdrSub(w) \/ Emit(w) \/ Abort(w)

StopNext ==
  \/ StopAccept("t1")
  \/ StopThread("t1")
  \/ Reload
  \/ \E sig \in {"SIGTERM", "SIGINT"} : Terminate(sig)
  \/ HandlerAgentShutdown
  \/ HandlerStunShutdown
  \/ HandlerExit

StopSpec == Init /\ [][StopNext]_vars

(***************************************************************************)
(* Properties.                                                             *)
(***************************************************************************)
MaxOf(scores) == CHOOSE m \in Range(scores) : \A x \in Range(scores) : x <= m

ArgMax(scores) == {i \in 1..Len(scores) : scores[i] = MaxOf(scores)}

FirstArgMax(scores) == CHOOSE i \in ArgMax(scores) : \A j \in ArgMax(scores) : i <= j

\* The signature list thread state loc scanned.
ScannedSignatures(loc) == RulesFile(loc.sigs).signatures

\* C1: the response id handed to responder is a candidate of a signature
\* with the maximal score when that score is above zero, and is the default
\* id 1 when no signature scores above zero (the empty list included).
C1_ChosenIdFromBestSignature ==
  \A w \in Workers :
    LET loc == workers[w] IN
    loc.response_id # 0 =>
      IF \E i \in 1..Len(loc.scores) : loc.scores[i] > 0
      THEN \E i \in ArgMax(loc.scores) :
             loc.response_id \in Range(ScannedSignatures(loc)[i].responses)
      ELSE loc.response_id = DefaultResponseId

\* A request was answered from the candidate list of a signature that
\* scored above zero.
C1_Witness ==
  \E w \in Workers :
    /\ workers[w].pc = "done" /\ workers[w].exc = ""
    /\ workers[w].best_score > 0
    /\ workers[w].response_id # DefaultResponseId

\* C2 as stated: when two or more signatures share the maximal score, the
\* scan selects the first of them in list order.
C2_FirstOfEqualMaximaSelected ==
  \A w \in Workers :
    LET loc == workers[w] IN
    (loc.response_id # 0 /\ loc.scores # <<>> /\ Cardinality(ArgMax(loc.scores)) >= 2)
      => loc.best_signature = FirstArgMax(loc.scores)

\* C2 amended: when two or more signatures share a maximal score that is
\* above the initial best score -1, the scan selects the first of them in
\* list order; at a maximal score of -1 or less it selects no signature.
C2_FirstOfEqualMaximaAboveInitial ==
  \A w \in Workers :
    LET loc == workers[w] IN
    (loc.response_id # 0 /\ loc.scores # <<>> /\ Cardinality(ArgMax(loc.scores)) >= 2)
      => IF MaxOf(loc.scores) > InitialBestScore
         THEN loc.best_signature = FirstArgMax(loc.scores)
         ELSE loc.best_signature = 0

\* Two signatures tied at the maximum and the first one was selected.
C2_Witness ==
  \E w \in Workers :
    /\ workers[w].pc = "done"
    /\ Len(workers[w].scores) >= 2
    /\ Cardinality(ArgMax(workers[w].scores)) >= 2
    /\ MaxOf(workers[w].scores) > 0
    /\ workers[w].best_signature = 1

\* C3: the Content-Length a thread sends is the byte length of the body
\* that thread templated and writes, whatever the other threads do.
C3_ContentLengthIsOwnBodyLength ==
  \A w \in Workers :
    LET loc == workers[w] IN
    HasKey(loc.out_headers, "Content-Length") =>
      /\ SeqGet(loc.out_headers, "Content-Length", <<>>) = IntToStr(Len(loc.body_bytes))
      /\ loc.body_bytes = Encode(loc.body)
      /\ loc.body_written => loc.out_body = loc.body_bytes

\* Two threads serve the same loaded response at once: one has sent its
\* Content-Length (of a templated body, longer in bytes than in characters
\* and than the text before templating) while the other, past storing its
\* own Content-Length in the shared header dict, is still sending headers.
C3_Witness ==
  \E w1, w2 \in Workers :
    /\ w1 # w2
    /\ workers[w1].pc = "flush"
    /\ HasKey(workers[w1].out_headers, "Content-Length")
    /\ workers[w2].pc \in {"hdr_iter", "hdr_sub"}
    /\ workers[w1].resp = workers[w2].resp
    /\ workers[w1].response_id = workers[w2].response_id
    /\ SharesHeaders(workers[w1])
    /\ Len(workers[w1].body_bytes) # Len(workers[w1].body)
    /\ Len(workers[w1].body) # Len(Resp(workers[w1]).body)

\* C4: the signature list a request scans and the response table it
\* resolves its id in belong to the same load.
C4_OneSnapshotPerRequest ==
  \A w \in Workers :
    workers[w].resp # NoRef => workers[w].resp = workers[w].sigs

\* C6: a request accepted after a reload is served from the reloaded
\* signatures, responses and customizations, none of them older than the
\* reload.
C6_ReloadedDataServed ==
  \A w \in Workers :
    LET loc == workers[w] IN
    loc.cust_file # NoRef =>
      /\ loc.sigs >= loc.reloads_at
      /\ loc.resp >= loc.reloads_at
      /\ loc.cust_file >= loc.reloads_at

\* The id looked up at line 75 is not in the table.
MissingResponse(loc) ==
  /\ loc.resp # NoRef
  /\ loc.response_id \notin DOMAIN RulesFile(loc.resp).responses

\* C7: when the chosen id is not in the response table the request still
\* ends with a complete response, status 404 and body "PAGE NOT FOUND.",
\* and not in an unhandled error.
C7_MissingIdGetsFallback ==
  \A w \in Workers :
    LET loc == workers[w] IN
    (Finished(loc) /\ MissingResponse(loc)) =>
      /\ loc.pc = "done"
      /\ loc.exc = "" =>
           /\ loc.out_status = 404
           /\ loc.out_body = Encode(PageNotFound)
           /\ ~HasKey(loc.out_headers, "Server")

\* The record the telemetry queue holds for the request of loc.
LogRecords(loc) ==
  {i \in 1..Len(isc_agent.queue) : isc_agent.queue[i].request = loc.accepted_at}

\* C8: when every signature scores <= 0, response id 1 is sent and the
\* signature field of the record handed to the telemetry sink is None.
C8_NoSignatureLoggedWhenNoneScores ==
  \A w \in Workers :
    LET loc == workers[w] IN
    (loc.pc = "done" /\ loc.exc = ""
       /\ \A i \in 1..Len(loc.scores) : loc.scores[i] <= 0) =>
      /\ loc.response_id = DefaultResponseId
      /\ \A i \in LogRecords(loc) : isc_agent.queue[i].signature_id = 0

\* C9: every handled request hands exactly one record to the telemetry
\* sink, whether or not the response could be emitted.
C9_OneEnqueuePerRequest ==
  \A w \in Workers :
    Finished(workers[w]) =>
      /\ workers[w].enqueued = 1
      /\ Cardinality(LogRecords(workers[w])) = 1


\* C5: a terminate or interrupt signal delivered while a shutdown is in
\* progress does not run the release sequence again: the agent's shutdown()
\* and the tunnel manager's shutdown() are each called at most once.
C5_ReleaseSequenceRunsOnce ==
  isc_agent.shutdowns <= 1 /\ stun_mgr.shutdowns <= 1

\* C10: a port held by another process during start-up never ends the
\* process.
C10_BindConflictNeverFatal ==
  ~(main.status = "exited" /\ main.cause = "OSError")

\* C11: a response without an explicit status is sent with 404 when its
\* templated body, as encoded for the wire, is no longer than the literal
\* "PAGE NOT FOUND." (15) and with 200 otherwise; a response with an
\* explicit status is sent with that status whatever the body length.
C11_StatusFromBodyLengthOrExplicit ==
  \A w \in Workers :
    LET loc == workers[w] IN
    loc.out_status # 0 =>
      IF "status_code" \in DOMAIN Resp(loc)
      THEN loc.out_status = Resp(loc).status_code
      ELSE loc.out_status = IF Len(loc.body_bytes) <= 15 THEN 404 ELSE 200

\* A response without a status whose body has exactly the length of the
\* literal went out with 404, on a request served to its end.
C11_Witness ==
  \E w \in Workers :
    /\ workers[w].pc = "done" /\ workers[w].body_written
    /\ "status_code" \notin DOMAIN Resp(workers[w])
    /\ Len(workers[w].body_bytes) = 15
    /\ workers[w].out_status = 404

\* C12: apply_customizations returns a text without markers unchanged, and
\* for any text and any mapping the text it returns holds no well-formed
\* marker.
C12_RenderLeavesNoMarker ==
  \A w \in Workers :
    LET loc == workers[w] IN
    loc.pc = "rendered" =>
      /\ FindAll(loc.value) = <<>> => loc.body = loc.value
      /\ FindAll(loc.body) = <<>>

\* The header lines of the given name a thread has sent.
Sent(loc, name) == {i \in 1..Len(loc.out_headers) : loc.out_headers[i][1] = name}

C14_HandledSignalStopsInOrder ==
  (/\ main.status = "exited"
   /\ isc_agent.shutdowns >= 1
   /\ main.cause \notin {"SIGTERM", "SIGINT"}) =>  \* not ended by a signal without handler
    /\ main.cause = "SystemExit"
    /\ main.exit_code = 0
    /\ stun_mgr.shutdowns >= 1

\* C15: the main thread is in serve_forever only after the agent's start()
\* has succeeded, the bind check has passed and the server holds the port,
\* and the tunnel manager's start-up step has completed.
C15_ListeningOnlyAfterStartup ==
  main.pc = "serve_forever" =>
    /\ isc_agent.started
    /\ port = "httpd"
    /\ stun_mgr.defined /\ stun_mgr.started
    /\ handlers = AllSignals

\* The start-up sequence, begun at the reading of the configuration, has
\* reached serve_forever.
C15_Witness ==
  /\ main.pc = "serve_forever" /\ main.status = "running"
  /\ handler_stack = <<>>
  /\ isc_agent.started /\ stun_mgr.started
  /\ response_customizations.file = 0

\* C16: a loaded response is never changed by the handling of requests; in
\* particular every header mapping still holds exactly the entries it was
\* loaded with.
C16_LoadedResponsesUnchanged ==
  \A o \in HeaderObjects : header_dicts[o] = RulesFile(o[1]).responses[o[2]].headers

\* The text a thread at body_sub or hdr_sub is about to render.
TextElement(loc) ==
  IF loc.pc = "body_sub" THEN DictGet(Resp(loc), "body", NotFound) ELSE loc.value

\* C17: the value a call of apply_customizations substitutes for the tag
\* date is the time that same call computed, never one another thread's
\* call left in the shared mapping.
C17_DateIsOwnCallsTime ==
  [][ \A w \in Workers :
        (/\ workers[w].pc \in {"body_sub", "hdr_sub"}
         /\ workers'[w].pc # workers[w].pc
         /\ DateTag \in Range(FindAll(TextElement(workers[w]))))
        => response_customizations.tags[DateTag] = workers[w].date ]_vars

\* The value the loaded response configures for header k, empty if none.
Configured(loc, k) ==
  IF SharesHeaders(loc) THEN SeqGet(Resp(loc).headers, k, <<>>) ELSE <<>>

\* C18: every header value sent, the Server header included, has been
\* rendered: a configured value that holds a marker is never sent as it is.
C18_NoHeaderSentUnrendered ==
  \A w \in Workers :
    LET loc == workers[w] IN
    loc.out_status # 0 =>
      \A i \in 1..Len(loc.out_headers) :
        LET k == loc.out_headers[i][1]
            v == loc.out_headers[i][2]
        IN FindAll(Configured(loc, k)) # <<>> => v # Configured(loc, k)

\* C19: when the peer goes away while the response is written, the failure
\* is caught in handle_request, which returns normally (nothing propagates
\* out of the handler), and the response the request was served from is
\* left as it was loaded.
C19_DisconnectCaughtTablesUnchanged ==
  \A w \in Workers :
    LET loc == workers[w] IN
    (Finished(loc) /\ loc.exc \in PeerGone) =>
      /\ loc.pc = "done"
      /\ SharesHeaders(loc) =>
            header_dicts[<<loc.resp, loc.response_id>>] = Resp(loc).headers

\* C20: once the agent's shutdown() has been called no record is handed to
\* add_to_queue any more.
C20_NoEnqueueAfterShutdown ==
  [][ isc_agent.shutdowns > 0 => Len(isc_agent'.queue) = Len(isc_agent.queue) ]_vars

====
